---- MODULE Spec2Model ----
(***************************************************************************)
(* Model of src/src/main.rs: the Farm genome (a grid of Sugar / Water /    *)
(* Air tiles), its repair kill_sugar, breed, mutate, the score functions   *)
(* and the generational loop of main.                                      *)
(*                                                                         *)
(* Rust vectors are 0-based; the sequences here are 1-based, so element i  *)
(* of a Vec is element i+1 of the sequence.  A panic (index out of bounds, *)
(* unwrap of None, empty range) is the value Panic for a tile and          *)
(* PanicFarm for a farm.                                                   *)
(***************************************************************************)
EXTENDS Integers, Sequences, FiniteSets, TLC

\* ---------------------------------------------------------------- bounds
\* side of the square farms of main (main.rs:265 uses 4)
Size == 2
\* largest configured population (main.rs:266 uses 500)
MaxPop == 3
\* number of generations of the run (main.rs:267 uses size * 1000)
MaxGen == 2
\* how many times in one run the draw "num < mutation_factor" succeeds
MaxMut == 2
\* largest width / height handed to the Farm functions in SpecFarm
MaxDim == 2

\* ------------------------------------------------------------------ tiles
Sugar == "Sugar"
Water == "Water"
Air == "Air"
Tile == {Sugar, Water, Air}
\* Option::None
None == "None"
\* a panic while computing a tile
Panic == "Panic"
\* a panic while computing a farm
PanicFarm == [panic |-> TRUE]

IsPanic(f) == "panic" \in DOMAIN f

\* Option::unwrap
unwrap(t) == IF t = None THEN Panic ELSE t

\* Option::unwrap_or
unwrap_or(t, d) == IF t = None THEN d ELSE t

\* ------------------------------------------------------------------- Farm
\* Farm::get_tile: the bounds check uses size_x and size_y, the read is
\* tiles[y][x] and panics when the vectors are shorter than the sizes say
get_tile(f, x, y) ==
    IF x >= f.size_x \/ y >= f.size_y THEN None
    ELSE IF y + 1 > Len(f.tiles) THEN Panic
    ELSE IF x + 1 > Len(f.tiles[y + 1]) THEN Panic
    ELSE f.tiles[y + 1][x + 1]

\* Farm::populate_with_air: size_x vectors of size_y Air tiles
populate_with_air(f) ==
    [f EXCEPT !.tiles = [x \in 1..f.size_x |-> [y \in 1..f.size_y |-> Air]]]

\* Farm::get_neighbours: <<top, right, bottom, left>>
get_neighbours(f, x, y) ==
    << IF y = 0 THEN Air ELSE unwrap_or(get_tile(f, x, y - 1), Air),
       unwrap_or(get_tile(f, x + 1, y), Air),
       unwrap_or(get_tile(f, x, y + 1), Air),
       IF x = 0 THEN Air ELSE unwrap_or(get_tile(f, x - 1, y), Air) >>

\* Farm::has_water_in_neighbourhood (the neighbours are all computed first)
has_water_in_neighbourhood(f, x, y) ==
    \E i \in 1..4 : get_neighbours(f, x, y)[i] = Water

neighbours_panic(f, x, y) ==
    \E i \in 1..4 : get_neighbours(f, x, y)[i] = Panic

\* kill_sugar_tile without the Sugar arm: every tile is kept
kill_sugar_tile_keep(f, x, y) == unwrap(get_tile(f, x, y))

\* the match of Farm::kill_sugar for the tile pushed at rows[x][y]
kill_sugar_tile(f, x, y) ==
    LET t == get_tile(f, x, y)
    IN  IF t = Sugar
        THEN IF neighbours_panic(f, x, y) THEN Panic
             ELSE IF has_water_in_neighbourhood(f, x, y) THEN Sugar ELSE Air
        ELSE unwrap(t)

\* a grid under construction holds a panic
rows_panic(rows) ==
    \E x \in 1..Len(rows) : \E y \in 1..Len(rows[x]) : rows[x][y] = Panic

\* Farm::kill_sugar: rows[x][y] is computed from get_tile(x, y)
kill_sugar(f) ==
    LET rows == [x \in 1..f.size_x |->
                    [y \in 1..f.size_y |-> kill_sugar_tile(f, x - 1, y - 1)]]
    IN  IF rows_panic(rows) THEN PanicFarm
        ELSE [tiles |-> rows, size_x |-> f.size_x, size_y |-> f.size_y]

\* Farm::new_rect
new_rect(size_x, size_y) ==
    kill_sugar(populate_with_air(
        [tiles |-> << >>, size_x |-> size_x, size_y |-> size_y]))

\* Farm::new_square
new_square(s) == new_rect(s, s)

\* the tile Farm::breed pushes at rows[x][y]
breed_tile(a, b, x, y) ==
    LET a_tile == unwrap(get_tile(a, x, y))
        b_tile == unwrap(get_tile(b, x, y))
    IN  IF a_tile = Panic \/ b_tile = Panic THEN Panic
        ELSE IF a_tile = Air THEN b_tile ELSE a_tile

\* Farm::breed: the child has a's size_x and b's size_y
breed(a, b) ==
    LET rows == [x \in 1..a.size_x |->
                    [y \in 1..a.size_y |-> breed_tile(a, b, x - 1, y - 1)]]
    IN  IF rows_panic(rows) THEN PanicFarm
        ELSE kill_sugar([tiles |-> rows, size_x |-> a.size_x, size_y |-> b.size_y])

\* the cells (x, y) Farm::mutate visits
Cells(f) == (0..(f.size_x - 1)) \X (0..(f.size_y - 1))

\* Farm::mutate: hits are the cells whose draw num < mutation_factor
\* succeeded, draw their new tiles; the others keep self.tiles[x][y]
mutate(f, hits, draw) ==
    LET old(x, y) == IF x > Len(f.tiles) THEN Panic
                     ELSE IF y > Len(f.tiles[x]) THEN Panic
                     ELSE f.tiles[x][y]
        rows == [x \in 1..f.size_x |->
                    [y \in 1..f.size_y |->
                        IF <<x - 1, y - 1>> \in hits
                        THEN draw[<<x - 1, y - 1>>] ELSE old(x, y)]]
    IN  IF rows_panic(rows) THEN PanicFarm
        ELSE [tiles |-> rows, size_x |-> f.size_x, size_y |-> f.size_y]

\* ----------------------------------------------------------------- scores
\* the (i, j) of "for row in &self.tiles { for tile in row {" (1-based)
TileIndex(f) ==
    UNION {{<<i, j>> : j \in 1..Len(f.tiles[i])} : i \in 1..Len(f.tiles)}

\* (symmetry_factor * 50.0) as usize; 0/0 is NaN, which casts to 0
symmetry_points(matched_tiles, total_tiles) ==
    IF total_tiles = 0 THEN 0 ELSE (50 * matched_tiles) \div total_tiles

\* Farm::get_sugar_score
get_sugar_score(f) ==
    100 * Cardinality({ij \in TileIndex(f) : f.tiles[ij[1]][ij[2]] = Sugar})

\* Farm::get_vertical_symmetry_score: tile j of a row against tile
\* size_x - 1 - j of the same row (in range on the square farms of main)
get_vertical_symmetry_score(f) ==
    symmetry_points(
        Cardinality({ij \in TileIndex(f) :
            f.tiles[ij[1]][ij[2]] = f.tiles[ij[1]][f.size_x - ij[2] + 1]}),
        f.size_x * f.size_y)

\* Farm::get_horizontal_symmetry_score: tile j of row i against tile j
\* of row size_y - 1 - i
get_horizontal_symmetry_score(f) ==
    symmetry_points(
        Cardinality({ij \in TileIndex(f) :
            f.tiles[ij[1]][ij[2]] = f.tiles[f.size_y - ij[1] + 1][ij[2]]}),
        f.size_x * f.size_y)

\* Farm::score
score(f) ==
    get_sugar_score(f) + get_vertical_symmetry_score(f)
        + get_horizontal_symmetry_score(f)

\* ------------------------------------------------------------- population
\* An element of the vector farms: the Farm, and the generation that
\* created it (0: the initial population; g: pushed in the g-th generation).
\* born is not a field of the program: it tells one Farm object from
\* another one of equal content.
Member(f, b) == [farm |-> f, born |-> b]

Range(s) == {s[i] : i \in 1..Len(s)}

\* insert_by_score with the comparison reversed (a descending sort)
insert_desc(s, e) ==
    SelectSeq(s, LAMBDA u : score(u.farm) >= score(e.farm)) \o <<e>>
        \o SelectSeq(s, LAMBDA u : score(u.farm) < score(e.farm))

\* where a stable ascending sort puts e among the sorted elements s
insert_by_score(s, e) ==
    SelectSeq(s, LAMBDA u : score(u.farm) <= score(e.farm)) \o <<e>>
        \o SelectSeq(s, LAMBDA u : score(u.farm) > score(e.farm))

\* farms.sort_by(|a, b| a.score().partial_cmp(&b.score()).unwrap()):
\* stable, ascending
RECURSIVE sort_by_score(_)
sort_by_score(s) ==
    IF s = << >> THEN << >>
    ELSE insert_by_score(sort_by_score(SubSeq(s, 1, Len(s) - 1)), s[Len(s)])

\* farms.pop() in the place of farms.remove(0)
remove_last(s) == SubSeq(s, 1, Len(s) - 1)

\* farms.remove(0)
remove_0(s) == Tail(s)

\* farms.insert(0, new_farm) in the place of farms.push(new_farm)
push_front(s, e) == <<e>> \o s

\* farms.push(new_farm)
push(s, e) == Append(s, e)

\* the indices rng.gen_range(0..(popluation / 3)) can return
parent_range(n) == 0..((n \div 3) - 1)

\* the largest score of a population
MaxScore(s) ==
    CHOOSE m \in {score(e.farm) : e \in Range(s)} :
        \A e \in Range(s) : score(e.farm) <= m

\* some Sugar of f has no Water among its four neighbours
unwatered(f) ==
    \E c \in Cells(f) :
        /\ get_tile(f, c[1], c[2]) = Sugar
        /\ ~has_water_in_neighbourhood(f, c[1], c[2])

\* ------------------------------------------------------------ main's loop
VARIABLES
    popluation,   \* main's popluation (sic)
    generations,  \* main's generations
    farms,        \* main's farms, a sequence of Member
    generation,   \* the loop variable of "for generation in 0..generations"
    pc,           \* "idle" | "loop" | "select" | "repopulate" | "done" | "panic"
    mutations,    \* successful draws num < mutation_factor so far
    pool,         \* farms as the first while loop left it (this generation)
    discarded,    \* what farms.remove(0) took out (this generation)
    sorted,       \* farms as the sort left it (this generation)
    lastParents,  \* the two elements of farms the last breed was given
    lastKilled,   \* the last kill_sugar of main found a Sugar without Water
    best,         \* the largest MaxScore(farms) at a loop head so far
    fa,           \* SpecFarm: the Farm under test
    fb,           \* SpecFarm: a second Farm (a clone of an earlier fa)
    prev,         \* SpecFarm: fa before its last kill_sugar
    ret,          \* SpecFarm: what breed returned, if it was the last call
    arg,          \* SpecFarm: <<size_x, size_y>> of the last new_rect
    last,         \* SpecFarm: the last call
    last2         \* SpecFarm: the call before it

loopvars == <<popluation, generations, farms, generation, pc, mutations,
              pool, discarded, sorted, lastParents, lastKilled, best>>

farmvars == <<fa, fb, prev, ret, arg, last, last2>>

vars == <<loopvars, farmvars>>

\* main.rs:270-275: popluation farms from new_square(size)
InitLoop ==
    /\ popluation \in 1..MaxPop
    /\ generations \in 0..MaxGen
    /\ farms = [i \in 1..popluation |-> Member(new_square(Size), 0)]
    /\ generation = 0
    /\ pc = "loop"
    /\ mutations = 0
    /\ pool = << >>
    /\ discarded = << >>
    /\ sorted = << >>
    /\ lastParents = << >>
    /\ lastKilled = FALSE
    /\ best = 0

IdleFarm ==
    /\ fa = new_square(0)
    /\ fb = new_square(0)
    /\ prev = new_square(0)
    /\ ret = new_square(0)
    /\ arg = <<0, 0>>
    /\ last = "none"
    /\ last2 = "none"

Init == InitLoop /\ IdleFarm

\* main.rs:277-278: the loop goes on, and sorts
Sort ==
    /\ pc = "loop"
    /\ generation < generations
    /\ farms' = sort_by_score(farms)
    /\ sorted' = sort_by_score(farms)
    /\ lastKilled' = FALSE
    /\ best' = IF MaxScore(farms) > best THEN MaxScore(farms) ELSE best
    /\ pool' = << >>
    /\ discarded' = << >>
    /\ lastParents' = << >>
    /\ pc' = "select"
    /\ UNCHANGED <<popluation, generations, generation, mutations>>
    /\ UNCHANGED farmvars

\* main.rs:279-281: one turn of the first while loop
RemoveWorst ==
    /\ pc = "select"
    /\ Len(farms) > popluation \div 3
    /\ farms' = remove_0(farms)
    /\ discarded' = Append(discarded, farms[1])
    /\ UNCHANGED <<popluation, generations, generation, pc, mutations, pool,
                   sorted, lastParents, lastKilled, best>>
    /\ UNCHANGED farmvars

\* main.rs:279: the first while loop ends
Selected ==
    /\ pc = "select"
    /\ ~(Len(farms) > popluation \div 3)
    /\ pool' = farms
    /\ pc' = "repopulate"
    /\ UNCHANGED <<popluation, generations, farms, generation, mutations,
                   discarded, sorted, lastParents, lastKilled, best>>
    /\ UNCHANGED farmvars

\* main.rs:282-291: one turn of the second while loop
BreedChild ==
    /\ pc = "repopulate"
    /\ Len(farms) < popluation
    /\ \E i \in parent_range(popluation), j \in parent_range(popluation) :
         LET new_farm == breed(farms[i + 1].farm, farms[j + 1].farm)
         IN  /\ ~IsPanic(new_farm)
             /\ \E hits \in SUBSET Cells(new_farm) :
                  /\ mutations + Cardinality(hits) <= MaxMut
                  /\ \E draw \in [hits -> Tile] :
                       LET mutated == mutate(new_farm, hits, draw)
                       IN  /\ farms' = push(farms,
                                  Member(kill_sugar(mutated), generation + 1))
                           /\ lastKilled' = unwatered(mutated)
                  /\ mutations' = mutations + Cardinality(hits)
             /\ lastParents' = <<farms[i + 1], farms[j + 1]>>
    /\ UNCHANGED <<popluation, generations, generation, pc, pool, discarded,
                   sorted, best>>
    /\ UNCHANGED farmvars

\* main.rs:285: rng.gen_range(0..0) panics (the range is empty)
EmptyRange ==
    /\ pc = "repopulate"
    /\ Len(farms) < popluation
    /\ parent_range(popluation) = {}
    /\ pc' = "panic"
    /\ UNCHANGED <<popluation, generations, farms, generation, mutations, pool,
                   discarded, sorted, lastParents, lastKilled, best>>
    /\ UNCHANGED farmvars

\* main.rs:282, 292-296: the second while loop ends, and the generation
EndGeneration ==
    /\ pc = "repopulate"
    /\ ~(Len(farms) < popluation)
    /\ generation' = generation + 1
    /\ pc' = "loop"
    /\ UNCHANGED <<popluation, generations, farms, mutations, pool, discarded,
                   sorted, lastParents, lastKilled, best>>
    /\ UNCHANGED farmvars

\* main.rs:298-300: the loop is over; the last sort, winner is farms[len - 1]
FinalSort ==
    /\ pc = "loop"
    /\ ~(generation < generations)
    /\ farms' = sort_by_score(farms)
    /\ best' = IF MaxScore(farms) > best THEN MaxScore(farms) ELSE best
    /\ pc' = "done"
    /\ UNCHANGED <<popluation, generations, generation, mutations, pool,
                   discarded, sorted, lastParents, lastKilled>>
    /\ UNCHANGED farmvars

Next ==
    \/ Sort
    \/ RemoveWorst
    \/ Selected
    \/ BreedChild
    \/ EmptyRange
    \/ EndGeneration
    \/ FinalSort

Spec == Init /\ [][Next]_vars

\* ----------------------------------------------- the functions of Farm
\* SpecFarm calls the functions of impl Farm one after the other on a Farm
\* fa and a second Farm fb, from Farm::new_rect on.  A call that panics
\* ends the run.

IdleLoop ==
    /\ popluation = 1
    /\ generations = 0
    /\ farms = << >>
    /\ generation = 0
    /\ pc = "idle"
    /\ mutations = 0
    /\ pool = << >>
    /\ discarded = << >>
    /\ sorted = << >>
    /\ lastParents = << >>
    /\ lastKilled = FALSE
    /\ best = 0

InitFarm == IdleLoop /\ IdleFarm

Running == ~IsPanic(fa) /\ ~IsPanic(ret)

\* fa = Farm::new_rect(size_x, size_y)
CallNewRect ==
    /\ Running
    /\ \E size_x \in 0..MaxDim, size_y \in 0..MaxDim :
         /\ fa' = new_rect(size_x, size_y)
         /\ arg' = <<size_x, size_y>>
    /\ prev' = new_square(0)
    /\ ret' = new_square(0)
    /\ last' = "new_rect"
    /\ last2' = last
    /\ UNCHANGED fb
    /\ UNCHANGED loopvars

\* fa.mutate(mutation_factor), on the Farm new_rect has just returned
\* (every grid of its shape is an outcome of this one call)
CallMutate ==
    /\ Running
    /\ last = "new_rect"
    /\ \E hits \in SUBSET Cells(fa) : \E draw \in [hits -> Tile] :
         fa' = mutate(fa, hits, draw)
    /\ prev' = new_square(0)
    /\ ret' = new_square(0)
    /\ last' = "mutate"
    /\ last2' = last
    /\ UNCHANGED <<fb, arg>>
    /\ UNCHANGED loopvars

\* fa.kill_sugar()
CallKillSugar ==
    /\ Running
    /\ fa' = kill_sugar(fa)
    /\ prev' = fa
    /\ ret' = new_square(0)
    /\ last' = "kill_sugar"
    /\ last2' = last
    /\ UNCHANGED <<fb, arg>>
    /\ UNCHANGED loopvars

\* fb = fa.clone()
CallClone ==
    /\ Running
    /\ fb' = fa
    /\ ret' = new_square(0)
    /\ last' = "clone"
    /\ last2' = last
    /\ UNCHANGED <<fa, prev, arg>>
    /\ UNCHANGED loopvars

\* ret = Farm::breed(&fa, &fb)
CallBreed ==
    /\ Running
    /\ ret' = breed(fa, fb)
    /\ last' = "breed"
    /\ last2' = last
    /\ UNCHANGED <<fa, fb, prev, arg>>
    /\ UNCHANGED loopvars

NextFarm ==
    \/ CallNewRect
    \/ CallMutate
    \/ CallKillSugar
    \/ CallClone
    \/ CallBreed

SpecFarm == InitFarm /\ [][NextFarm]_vars

\* ----------------------------------------------------------------- claims
\* The tile of genome f at (col, row), every address outside the grid
\* counting as Air.
TileAt(f, col, row) ==
    IF col \in 0..(f.size_x - 1) /\ row \in 0..(f.size_y - 1)
    THEN get_tile(f, col, row) ELSE Air

\* (col, row) has Water above, below, left or right of it
Watered(f, col, row) ==
    \/ TileAt(f, col, row - 1) = Water
    \/ TileAt(f, col, row + 1) = Water
    \/ TileAt(f, col - 1, row) = Water
    \/ TileAt(f, col + 1, row) = Water

\* every Sugar of f has a Water neighbour
Repaired(f) ==
    /\ ~IsPanic(f)
    /\ \A c \in Cells(f) :
         TileAt(f, c[1], c[2]) = Sugar => Watered(f, c[1], c[2])

\* f and g have the same shape and the same tile at every address
SameCells(f, g) ==
    /\ f.size_x = g.size_x
    /\ f.size_y = g.size_y
    /\ \A c \in Cells(f) : get_tile(f, c[1], c[2]) = get_tile(g, c[1], c[2])

\* how often e occurs in s
Count(e, s) == Cardinality({i \in 1..Len(s) : s[i] = e})

\* a generation has just been completed
GenerationDone == pc = "loop" /\ generation >= 1

C2_EveryGenerationCompletes ==
    /\ pc # "panic"
    /\ GenerationDone => Len(farms) = popluation

\* C3: every genome of the population, and the result of every breed, has
\* Water next to each of its Sugar tiles.
C3_GenomeInvariant ==
    /\ \A e \in Range(farms) : Repaired(e.farm)
    /\ lastParents # << >> =>
         Repaired(breed(lastParents[1].farm, lastParents[2].farm))

\* a mutation left a Sugar without Water, and kill_sugar made the child
C3_Witness ==
    /\ pc = "repopulate"
    /\ lastParents # << >>
    /\ lastKilled
    /\ farms[Len(farms)].born = generation + 1

\* C9: the selection keeps popluation / 3 farms of the population it found,
\* none of them scoring less than a discarded one, and both parents of a
\* child are among the farms it kept.
C9_SelectionKeepsTopThird ==
    pc = "repopulate" =>
        /\ Len(pool) = popluation \div 3
        /\ Len(discarded) = popluation - (popluation \div 3)
        /\ \A e \in Range(sorted) :
             Count(e, sorted) = Count(e, pool) + Count(e, discarded)
        /\ \A d \in Range(discarded) : \A r \in Range(pool) :
             score(d.farm) <= score(r.farm)
        /\ lastParents # << >> =>
             /\ lastParents[1] \in Range(pool)
             /\ lastParents[2] \in Range(pool)

\* a farm was discarded that scored less than a kept one, and a child bred
C9_Witness ==
    /\ pc = "repopulate"
    /\ lastParents # << >>
    /\ \E d \in Range(discarded) : \E r \in Range(pool) :
         score(d.farm) < score(r.farm)

\* C10: with popluation >= 3 the largest score at a loop head is at least
\* the largest score at every earlier loop head, and the winner scores at
\* least as much as that.
C10_BestNeverDecreases ==
    popluation >= 3 =>
        /\ pc = "loop" => MaxScore(farms) >= best
        /\ pc = "done" => score(farms[Len(farms)].farm) >= best

\* a generation has raised the largest score above every earlier one
C10_Witness ==
    /\ popluation >= 3
    /\ GenerationDone
    /\ best >= score(new_square(Size))
    /\ MaxScore(farms) > best

\* C4: kill_sugar on the result of kill_sugar changes no cell.
C4_RepairIdempotent ==
    (last = "kill_sugar" /\ last2 = "kill_sugar" /\ ~IsPanic(fa)) =>
        SameCells(fa, prev)

\* C5: after kill_sugar the tile at (col, row) is Air where the genome had
\* a Sugar without Water beside it, and the genome's tile at (col, row)
\* everywhere else.
C5_RepairKeepsAddresses ==
    (last = "kill_sugar" /\ ~IsPanic(fa)) =>
        \A c \in Cells(prev) :
            get_tile(fa, c[1], c[2]) =
                IF TileAt(prev, c[1], c[2]) = Sugar /\ ~Watered(prev, c[1], c[2])
                THEN Air ELSE TileAt(prev, c[1], c[2])

\* C6: breed(a, a) is cell for cell kill_sugar(a).
C6_BreedSelfIsRepair ==
    (last = "breed" /\ fa = fb /\ ~IsPanic(ret) /\ ~IsPanic(kill_sugar(fa))) =>
        SameCells(ret, kill_sugar(fa))

\* C7: breed of two farms of different width or height panics; it returns
\* no child.
C7_MismatchRejected ==
    (last = "breed" /\ (fa.size_x # fb.size_x \/ fa.size_y # fb.size_y)) =>
        IsPanic(ret)

\* C8: for size_x >= 1 and size_y >= 1 new_rect returns a farm whose
\* get_tile is Air inside the grid and None outside.
C8_CreateTotal ==
    (last = "new_rect" /\ arg[1] >= 1 /\ arg[2] >= 1) =>
        /\ ~IsPanic(fa)
        /\ \A col \in 0..(MaxDim + 1), row \in 0..(MaxDim + 1) :
             get_tile(fa, col, row) =
                 IF col < arg[1] /\ row < arg[2] THEN Air ELSE None

====
